---- MODULE Spec2Model ----
(***************************************************************************)
(* Model of job_bot.py: the scrape -> dedupe -> notify pipeline.           *)
(*                                                                         *)
(* One process (main) runs sequentially: it loads the cookies, opens the   *)
(* sent_jobs table, scrapes once and sends the new jobs (batch run), then  *)
(* polls getUpdates forever and runs handle_test for every "/test" command *)
(* of the configured chat.  A posting is modelled by its id (title and url *)
(* are descriptive only: the url is derived from the id, job_bot.py:229).  *)
(* Texts that the code inspects (exception messages) are sequences of      *)
(* one-character strings.                                                  *)
(***************************************************************************)
EXTENDS Naturals, Integers, Sequences, FiniteSets, TLC

\* ------------------------------------------------------------------ bounds
\* Job ids the site can assign.
JobIds == {"j1", "j2"}
\* Longest element list query_selector_all returns in the model.
MaxEls == 5
\* Largest update_id a getUpdates response carries in the model.
MaxUpdateId == 2
\* Longest "result" list of one getUpdates response in the model.
MaxResp == 2
\* JOBS_TO_SCRAPE and JOBS_TO_SEND are 33 and 8 in job_bot.py:23-24; the
\* model scales both down, keeping JOBS_TO_SEND < JOBS_TO_SCRAPE < MaxEls so
\* that both caps cut lists short.
JOBS_TO_SCRAPE == 4
JOBS_TO_SEND == 3
\* Longest COOKIE_JSON array in the model.
MaxCookies == 2
\* Minutes of wall-clock time that pass while the process polls, in the model.
MaxClock == 2

\* ------------------------------------------------------- program constants
\* max_retries=3, the default every caller uses.
max_retries == 3
\* Number of entries of the selectors list.
NumSelectors == 7

\* ---------------------------------------------------------------- strings
Str_Captcha == <<"C","a","p","t","c","h","a">>
Str_blocked == <<"b","l","o","c","k","e","d">>
Str_BlockedByCaptcha == <<"B","l","o","c","k","e","d"," ","b","y"," ","C","a","p","t","c","h","a"," ","o","r"," ","B","o","t"," ","d","e","t","e","c","t","i","o","n">>
Str_NoSelector == <<"N","o"," ","k","n","o","w","n"," ","s","e","l","e","c","t","o","r"," ","f","o","u","n","d","."," ","S","c","r","e","e","n","s","h","o","t",":"," ">>
Str_Html == <<","," ","H","T","M","L",":"," ">>
Str_ShotFile == <<"e","r","r","o","r","_","s","c","r","e","e","n","s","h","o","t","_","0",".","p","n","g">>
Str_HtmlFile == <<"e","r","r","o","r","_","p","a","g","e","_","0",".","h","t","m","l">>
Str_ShotFailed == <<"s","c","r","e","e","n","s","h","o","t"," ","f","a","i","l","e","d">>
Str_HtmlFailed == <<"h","t","m","l"," ","d","u","m","p"," ","f","a","i","l","e","d">>
Str_Timeout == <<"T","i","m","e","o","u","t"," ","3","0","0","0","0","m","s"," ","e","x","c","e","e","d","e","d",".">>
Str_ErrBlocked == <<"n","e","t",":",":","E","R","R","_","B","L","O","C","K","E","D","_","B","Y","_","C","L","I","E","N","T">>
Str_TargetClosed == <<"T","a","r","g","e","t"," ","c","l","o","s","e","d">>

\* str.lower() on one character (the upper-case letters the texts use).
LowerChar(c) ==
    CASE c = "B" -> "b" [] c = "C" -> "c" [] c = "D" -> "d" [] c = "E" -> "e"
      [] c = "H" -> "h" [] c = "I" -> "i" [] c = "K" -> "k" [] c = "L" -> "l"
      [] c = "M" -> "m" [] c = "N" -> "n" [] c = "O" -> "o" [] c = "R" -> "r"
      [] c = "S" -> "s" [] c = "T" -> "t" [] c = "Y" -> "y" [] OTHER -> c

\* str.lower()
Lower(s) == [i \in 1..Len(s) |-> LowerChar(s[i])]

\* the Python operator "sub in s" on strings
Contains(s, sub) ==
    \E i \in 1..(Len(s) + 1) :
        /\ i + Len(sub) - 1 <= Len(s)
        /\ SubSeq(s, i, i + Len(sub) - 1) = sub

\* --------------------------------------------------------------- exceptions
\* An exception raised inside an attempt: its class and what str(e) needs.
NoExc == [kind |-> "none", shot |-> "", html |-> ""]
CaptchaExc == [kind |-> "RuntimeError", shot |-> "", html |-> ""]
NoSelectorExc(shot_ok, html_ok) ==
    [kind |-> "TimeoutError",
     shot |-> IF shot_ok THEN "file" ELSE "failed",
     html |-> IF html_ok THEN "file" ELSE "failed"]
\* Errors the browser engine raises on its own (navigation timeout, a
\* request the client blocks, a page that went away).
EngineKinds == {"NavTimeout", "NetBlocked", "TargetClosed"}
EngineExc(k) == [kind |-> k, shot |-> "", html |-> ""]

\* str(e)
ExcStr(e) ==
    CASE e.kind = "RuntimeError" -> Str_BlockedByCaptcha
      [] e.kind = "TimeoutError" ->
            Str_NoSelector
              \o (IF e.shot = "file" THEN Str_ShotFile ELSE Str_ShotFailed)
              \o Str_Html
              \o (IF e.html = "file" THEN Str_HtmlFile ELSE Str_HtmlFailed)
      [] e.kind = "NavTimeout" -> Str_Timeout
      [] e.kind = "NetBlocked" -> Str_ErrBlocked
      [] e.kind = "TargetClosed" -> Str_TargetClosed
      [] OTHER -> <<>>

\* "Captcha" in str(e) or "blocked" in str(e).lower()
HaltsRetries(e) ==
    \/ Contains(ExcStr(e), Str_Captcha)
    \/ Contains(Lower(ExcStr(e)), Str_blocked)

\* ------------------------------------------------------------------- pages
\* What the extraction loop can read off one matched element: the job key
\* it yields (attribute or href parameter), or no key at all.
NoJk == "nojk"
Elements == JobIds \cup {NoJk}

RECURSIVE SeqsUpTo(_, _)
SeqsUpTo(S, n) ==
    IF n = 0 THEN {<<>>}
    ELSE LET shorter == SeqsUpTo(S, n - 1)
         IN  shorter \cup {Append(s, x) : s \in {t \in shorter : Len(t) = n - 1}, x \in S}

\* The whole extraction loop over an element list: the jobs list it builds.
RECURSIVE ExtractFrom(_, _, _)
ExtractFrom(list, acc, max_results) ==
    IF list = <<>> \/ Len(acc) >= max_results THEN acc
    ELSE IF Head(list) = NoJk
         THEN ExtractFrom(Tail(list), acc, max_results)
         ELSE ExtractFrom(Tail(list), Append(acc, Head(list)), max_results)

\* ------------------------------------------------------------------- store
\* sent_jobs: rows (job_id, sent_at); job_id is the PRIMARY KEY.
Times == {0, 1}
StoredIds(table) == {r.job_id : r \in table}

\* SELECT 1 FROM sent_jobs WHERE job_id=? ... fetchone()
Fetch(table, id) == id \in StoredIds(table)

\* INSERT INTO sent_jobs (job_id, sent_at) VALUES (?, ?): the row is added,
\* or the PRIMARY KEY constraint raises sqlite3.IntegrityError and the
\* table is left as it was.
Insert(table, id, at) ==
    IF id \in StoredIds(table)
    THEN [table |-> table, raised |-> TRUE]
    ELSE [table |-> table \cup {[job_id |-> id, sent_at |-> at]}, raised |-> FALSE]

\* ----------------------------------------------------------------- cookies
\* A cookie of the input array is a JSON object: a function from the keys
\* it has to their values.  expirationDate is a float, kept in tenths.
RequiredFields == {"name", "value", "domain"}

\* c.get(key, default)
Get(c, key, default) == IF key \in DOMAIN c THEN c[key] ELSE default

\* int(x) for a float kept in tenths
IntOf(x) == x \div 10

CookieFull ==
    [name |-> "sid", value |-> "v", domain |-> "d", path |-> "/jobs",
     httpOnly |-> TRUE, secure |-> TRUE, sameSite |-> "Strict", expirationDate |-> 15]
CookieMinimal == [name |-> "sid", value |-> "v", domain |-> "d"]
CookieOddSameSite == [name |-> "sid", value |-> "v", domain |-> "d", sameSite |-> "no_restriction"]
CookieNoName == [value |-> "v", domain |-> "d"]
CookieNoValue == [name |-> "sid", domain |-> "d"]
CookieNoDomain == [name |-> "sid", value |-> "v", path |-> "/"]
CookieInputs == {CookieFull, CookieMinimal, CookieOddSameSite,
                 CookieNoName, CookieNoValue, CookieNoDomain}

\* The dict appended to sanitized, for an entry that has c["name"],
\* c["value"] and c["domain"].
SanitizeCookie(c) ==
    LET same_site == Get(c, "sameSite", "Lax")
    IN  [name |-> c["name"],
         value |-> c["value"],
         domain |-> c["domain"],
         path |-> Get(c, "path", "/"),
         httpOnly |-> Get(c, "httpOnly", FALSE),
         secure |-> Get(c, "secure", FALSE),
         sameSite |-> IF same_site \in {"Strict", "Lax", "None"} THEN same_site ELSE "Lax",
         expires |-> IntOf(Get(c, "expirationDate", 0))]

\* for c in cookies: sanitized.append({...}); c["name"], c["value"] and
\* c["domain"] raise KeyError for a key the entry does not have.
RECURSIVE SanitizeLoop(_, _)
SanitizeLoop(list, sanitized) ==
    IF list = <<>> THEN [cookies |-> sanitized, raised |-> FALSE]
    ELSE IF RequiredFields \subseteq DOMAIN Head(list)
         THEN SanitizeLoop(Tail(list), Append(sanitized, SanitizeCookie(Head(list))))
         ELSE [cookies |-> <<>>, raised |-> TRUE]

\* The values of COOKIE_JSON: unset or empty, text that is neither JSON nor
\* the path of a file, a JSON array, the path of a file holding one.
RawUnset == [kind |-> "unset", array |-> <<>>]
RawGarbage == [kind |-> "garbage", array |-> <<>>]
RawInputs ==
    {RawUnset, RawGarbage}
      \cup {[kind |-> k, array |-> a] :
               k \in {"json", "file"}, a \in SeqsUpTo(CookieInputs, MaxCookies)}
\* The inputs the runs of the whole process start from.
BaseRawInputs ==
    {RawUnset,
     [kind |-> "json", array |-> <<CookieMinimal>>],
     [kind |-> "json", array |-> <<CookieNoName, CookieMinimal>>]}

\* load_playwright_cookies()
LoadResult(r) ==
    IF r.kind \in {"unset", "garbage"}
    THEN [cookies |-> <<>>, raised |-> FALSE]
    ELSE SanitizeLoop(r.array, <<>>)

\* ------------------------------------------------------------------- state
VARIABLES
    pc,            \* where main is: in main, in scrape_indeed_jobs_pw (s_...),
                   \* in send_new_jobs or in handle_test
    error,         \* the exception that ended the process, "none" while it runs
    sent_jobs,     \* the sent_jobs table of jobs_sent.db
    offset,        \* main: the getUpdates cursor, None until an update is seen
    pending,       \* main: updates of the current response not yet looked at
    caller,        \* who called the scrape: "startup" (main) or "test" (handle_test)
    attempt,       \* scrape: the loop variable
    page,          \* scrape: TRUE when page is a page object, FALSE when None
    found,         \* scrape: index of the selector that matched, 0 for None
    els,           \* scrape: the elements of the list query_selector_all returned, as
                   \* far as the extraction loop has read them
    el_i,          \* scrape: elements of els the extraction loop is done with
    jobs,          \* scrape: the jobs list of the current attempt
    exc,           \* scrape: the exception the except clause handles
    result,        \* scrape: the value the invocation returned
    scraped,       \* the caller's jobs, bound to the value the scrape returned
    new,           \* send_new_jobs: the list new
    send_i,        \* send_new_jobs: entries of new the send loop is done with
    count,         \* send_new_jobs: count
    sends,         \* history: the send_telegram_message calls of the current run
    storeAtStart,  \* history: ids in sent_jobs when the current run started
    outcomes,      \* history: how each attempt of the current invocation ended
    matching,      \* history: the selectors the page of the attempt has a match for
    upd,           \* history: the update the last step dispatched, NoUpd after other steps
    raw,           \* the value of COOKIE_JSON (and of the file it may name)
    cookies,       \* main: cookies, the list load_playwright_cookies returned
    clock,         \* the wall clock, in minutes since the process started
    batchMinutes   \* history: the minutes in which send_new_jobs was called

vars == <<pc, error, sent_jobs, offset, pending, caller, attempt, page, found,
          els, el_i, jobs, exc, result, scraped, new, send_i, count, sends,
          storeAtStart, outcomes, matching, upd, raw, cookies, clock, batchMinutes>>

scrapeVars == <<attempt, page, found, els, el_i, jobs, exc, result, outcomes, matching>>
batchVars == <<new, send_i, count>>
pollVars == <<offset, pending>>
loadVars == <<raw, cookies>>
clockVars == <<clock, batchMinutes>>

\* offset = None: update ids are positive, 0 stands for "no update seen".
None == 0

\* No update dispatched by the last step.
NoUpd == [update_id |-> 0, chat |-> "no message", text |-> <<>>]

\* The table survives restarts: the process starts with whatever earlier
\* processes recorded.
InitWith(raws) ==
    /\ pc = "load_cookies"
    /\ error = "none"
    /\ sent_jobs \in {{[job_id |-> id, sent_at |-> 0] : id \in S} : S \in SUBSET JobIds}
    /\ offset = None
    /\ pending = 0
    /\ caller = "none"
    /\ attempt = 0
    /\ page = FALSE
    /\ found = 0
    /\ els = <<>>
    /\ el_i = 0
    /\ jobs = <<>>
    /\ exc = NoExc
    /\ result = <<>>
    /\ scraped = <<>>
    /\ new = <<>>
    /\ send_i = 0
    /\ count = 0
    /\ sends = <<>>
    /\ storeAtStart = {}
    /\ outcomes = <<>>
    /\ matching = {}
    /\ upd = NoUpd
    /\ raw \in raws
    /\ cookies = <<>>
    /\ clock = 0
    /\ batchMinutes = {}

Init == InitWith(BaseRawInputs)

\* ------------------------------------------------- scrape_indeed_jobs_pw
\* The call: the for loop is about to start.
CallScrape(who) ==
    /\ caller' = who
    /\ attempt' = 0
    /\ page' = FALSE
    /\ found' = 0
    /\ els' = <<>>
    /\ el_i' = 0
    /\ jobs' = <<>>
    /\ exc' = NoExc
    /\ result' = <<>>
    /\ outcomes' = <<>>
    /\ matching' = {}
    /\ pc' = "s_loop"

\* BeginAttempt without "jobs = []": the list lives across attempts.
BeginAttempt_KeepJobs ==
    /\ pc = "s_loop"
    /\ attempt < max_retries
    /\ attempt' = attempt + 1
    /\ page' = FALSE
    /\ found' = 0
    /\ els' = <<>>
    /\ el_i' = 0
    /\ exc' = NoExc
    /\ matching' = {}
    /\ pc' = "s_navigate"
    /\ UNCHANGED <<jobs, error, sent_jobs, caller, result, scraped, sends,
                   storeAtStart, outcomes, new, send_i, count, offset, pending, loadVars, clockVars>>
    /\ upd' = NoUpd

\* for attempt in range(1, max_retries+1): jobs = []; page = None
BeginAttempt ==
    /\ pc = "s_loop"
    /\ attempt < max_retries
    /\ attempt' = attempt + 1
    /\ jobs' = <<>>
    /\ page' = FALSE
    /\ found' = 0
    /\ els' = <<>>
    /\ el_i' = 0
    /\ exc' = NoExc
    /\ matching' = {}
    /\ pc' = "s_navigate"
    /\ UNCHANGED <<error, sent_jobs, caller, result, scraped, sends, storeAtStart,
                   outcomes, batchVars, pollVars, loadVars, clockVars>>
    /\ upd' = NoUpd

\* An exception leaves the try block for the except clause, which reads
\* page, browser and the exception; found and els are not read again.
Unwind(e, how) ==
    /\ exc' = e
    /\ outcomes' = Append(outcomes, how)
    /\ found' = 0
    /\ els' = <<>>
    /\ el_i' = 0
    /\ pc' = "s_except"

Raise(e, how) ==
    /\ Unwind(e, how)
    /\ UNCHANGED matching

\* launch, new_context, add_cookies, new_page, add_stealth, add_init_script,
\* goto: any of them may raise, before or after page is bound.
Navigate ==
    /\ pc = "s_navigate"
    /\ \/ /\ page' = TRUE
          /\ pc' = "s_interact"
          /\ UNCHANGED <<exc, outcomes, found, els, el_i, matching>>
       \/ \E k \in EngineKinds, bound \in BOOLEAN :
              /\ page' = bound
              /\ Raise(EngineExc(k), "other")
    /\ UNCHANGED <<error, sent_jobs, caller, attempt, jobs, result, scraped, sends,
                   storeAtStart, batchVars, pollVars, loadVars, clockVars>>
    /\ upd' = NoUpd

\* human_like_interactions(page); sleep: it has no try of its own, so an
\* error of a mouse move, a scroll or the click is an error of the attempt.
Interact ==
    /\ pc = "s_interact"
    /\ \/ /\ pc' = "s_challenge"
          /\ UNCHANGED <<exc, outcomes, found, els, el_i, matching>>
       \/ \E k \in EngineKinds : Raise(EngineExc(k), "other")
    /\ UNCHANGED <<error, sent_jobs, caller, attempt, page, jobs, result, scraped,
                   sends, storeAtStart, batchVars, pollVars, loadVars, clockVars>>
    /\ upd' = NoUpd

\* captcha_detected = any([...]); when set, the screenshot and the HTML dump
\* are tried (failures only replace the path in the log line) and
\* RuntimeError("Blocked by Captcha or Bot detection") is raised.
ChallengeCheck ==
    /\ pc = "s_challenge"
    /\ \/ /\ pc' = "s_selector"
          /\ UNCHANGED <<exc, outcomes, found, els, el_i, matching>>
       \/ Raise(CaptchaExc, "challenge")
       \/ \E k \in EngineKinds : Raise(EngineExc(k), "other")
    /\ UNCHANGED <<error, sent_jobs, caller, attempt, page, jobs, result, scraped,
                   sends, storeAtStart, batchVars, pollVars, loadVars, clockVars>>
    /\ upd' = NoUpd

\* A search that waits for the first selector of the list only.
FirstMatch_OnlyFirst(m) == IF 1 \in m THEN 1 ELSE 0

\* for sel in selectors: wait_for_selector ... found = sel; break.  m is the
\* set of selectors the page has a match for.
FirstMatch(m) ==
    IF m = {} THEN 0
    ELSE CHOOSE i \in m : \A j \in m : i <= j

\* The pages of the model, by the selectors they have a match for: none,
\* one only, or one and the last.
MatchSets ==
    {{}} \cup {{k} : k \in 1..NumSelectors} \cup {{k, NumSelectors} : k \in 1..NumSelectors}

\* The selector search; if not found: capture and raise TimeoutError.
SelectorSearch ==
    /\ pc = "s_selector"
    /\ \E m \in MatchSets :
          IF FirstMatch(m) # 0
          THEN /\ found' = FirstMatch(m)
               /\ matching' = m
               /\ pc' = "s_query"
               /\ UNCHANGED <<exc, outcomes, els, el_i>>
          ELSE /\ matching' = m
               /\ \E shot_ok \in BOOLEAN, html_ok \in BOOLEAN :
                      Unwind(NoSelectorExc(shot_ok, html_ok), "selector")
    /\ UNCHANGED <<error, sent_jobs, caller, attempt, page, jobs, result, scraped,
                   sends, storeAtStart, batchVars, pollVars, loadVars, clockVars>>
    /\ upd' = NoUpd

\* els = page.query_selector_all(found); found is not read after it.  The
\* list holds handles: what an element carries is read in the loop.
Query ==
    /\ pc = "s_query"
    /\ \/ /\ els' = <<>>
          /\ el_i' = 0
          /\ found' = 0
          /\ matching' = {}
          /\ pc' = "s_extract"
          /\ UNCHANGED <<exc, outcomes>>
       \/ \E k \in EngineKinds : Raise(EngineExc(k), "other")
    /\ UNCHANGED <<error, sent_jobs, caller, attempt, page, jobs, result, scraped,
                   sends, storeAtStart, batchVars, pollVars, loadVars, clockVars>>
    /\ upd' = NoUpd

\* One pass of "for el in els": the loop ends when the list has no further
\* element, and breaks at max_results; else the element is read, skipped
\* when it has no job key and appended as a posting otherwise; reading the
\* element may raise.  The loop ends at browser.close().
ExtractStep ==
    /\ pc = "s_extract"
    /\ \/ /\ pc' = "s_close"
          /\ UNCHANGED <<el_i, els, found, jobs, exc, outcomes, matching>>
       \/ /\ el_i < MaxEls
          /\ Len(jobs) < JOBS_TO_SCRAPE
          /\ \/ \E el \in Elements :
                   /\ els' = Append(els, el)
                   /\ el_i' = el_i + 1
                   /\ jobs' = IF el = NoJk THEN jobs ELSE Append(jobs, el)
                   /\ UNCHANGED <<pc, found, exc, outcomes, matching>>
             \/ /\ \E k \in EngineKinds : Raise(EngineExc(k), "other")
                /\ UNCHANGED jobs
    /\ UNCHANGED <<error, sent_jobs, caller, attempt, page, result, scraped, sends,
                   storeAtStart, batchVars, pollVars, loadVars, clockVars>>
    /\ upd' = NoUpd

\* browser.close(); return jobs
CloseAndReturn ==
    /\ pc = "s_close"
    /\ \/ /\ result' = jobs
          /\ outcomes' = Append(outcomes, "success")
          /\ pc' = "s_returned"
          /\ UNCHANGED <<exc, found, els, el_i, matching>>
       \/ /\ \E k \in EngineKinds : Raise(EngineExc(k), "other")
          /\ UNCHANGED result
    /\ UNCHANGED <<error, sent_jobs, caller, attempt, page, jobs, scraped, sends,
                   storeAtStart, batchVars, pollVars, loadVars, clockVars>>
    /\ upd' = NoUpd

\* "return []": the value of an invocation that gave up.
FailureResult == <<>>

\* The except clause.  The screenshot and the HTML dump have their own
\* try; write_error_log has none, and git_commit_and_push catches
\* CalledProcessError only, so an error of the log write (OSError) or of
\* starting git (FileNotFoundError) leaves the function.  Then the
\* decision: halt on a Captcha/blocked message, retry below max_retries,
\* return [] at max_retries.
ExceptHandler ==
    /\ pc = "s_except"
    /\ \E shot_ok \in BOOLEAN, html_ok \in BOOLEAN,
          log_ok \in BOOLEAN, git \in {"ok", "CalledProcessError", "FileNotFoundError"} :
          IF ~log_ok
          THEN /\ error' = "OSError"
               /\ pc' = "s_raised"
               /\ UNCHANGED result
          ELSE IF git = "FileNotFoundError"
          THEN /\ error' = "FileNotFoundError"
               /\ pc' = "s_raised"
               /\ UNCHANGED result
          ELSE IF HaltsRetries(exc) \/ attempt >= max_retries
          THEN /\ result' = FailureResult
               /\ pc' = "s_returned"
               /\ UNCHANGED error
          ELSE /\ pc' = "s_loop"
               /\ UNCHANGED <<error, result>>
    /\ UNCHANGED <<sent_jobs, caller, attempt, page, found, els, el_i, jobs, exc,
                   scraped, sends, storeAtStart, outcomes, matching, batchVars, pollVars, loadVars, clockVars>>
    /\ upd' = NoUpd

\* The value goes to the caller; the locals of the invocation are gone.
ScrapeReturn ==
    /\ pc = "s_returned"
    /\ scraped' = result
    /\ pc' = IF caller = "startup" THEN "send_new_jobs" ELSE "handle_test"
    /\ attempt' = 0
    /\ page' = FALSE
    /\ found' = 0
    /\ els' = <<>>
    /\ el_i' = 0
    /\ jobs' = <<>>
    /\ exc' = NoExc
    /\ result' = <<>>
    /\ outcomes' = <<>>
    /\ matching' = {}
    /\ UNCHANGED <<error, sent_jobs, caller, sends, storeAtStart,
                   batchVars, pollVars, loadVars, clockVars>>
    /\ upd' = NoUpd

\* An error that left the scrape: neither main (line 324) nor handle_test
\* (line 304) nor the polling loop around handle_test (line 341) has a try
\* for it, so the process ends with the traceback.
ScrapePropagate ==
    /\ pc = "s_raised"
    /\ pc' = "crashed"
    /\ UNCHANGED <<error, sent_jobs, caller, sends, storeAtStart,
                   scraped, scrapeVars, batchVars, pollVars, loadVars, clockVars>>
    /\ upd' = NoUpd

\* ------------------------------------------------------------ send_new_jobs
\* NewJobs without the SELECT: every scraped posting counts as new.
RECURSIVE NewJobs_NoSelect(_, _, _)
NewJobs_NoSelect(list, table, acc) ==
    IF list = <<>> THEN acc
    ELSE LET acc2 == Append(acc, Head(list))
         IN  IF Len(acc2) >= JOBS_TO_SEND THEN acc2
             ELSE NewJobs_NoSelect(Tail(list), table, acc2)

\* The filter loop: for j in jobs: append j unless its id is fetched; break
\* once len(new) >= JOBS_TO_SEND.
RECURSIVE NewJobs(_, _, _)
NewJobs(list, table, acc) ==
    IF list = <<>> THEN acc
    ELSE LET acc2 == IF Fetch(table, Head(list)) THEN acc ELSE Append(acc, Head(list))
         IN  IF Len(acc2) >= JOBS_TO_SEND THEN acc2
             ELSE NewJobs(Tail(list), table, acc2)

\* send_new_jobs up to the send loop: new is built; "if not new: return 0".
FilterNew ==
    /\ pc = "send_new_jobs"
    /\ new' = NewJobs(scraped, sent_jobs, <<>>)
    /\ send_i' = 0
    /\ count' = 0
    /\ pc' = IF new' = <<>> THEN "batch_done" ELSE "send_loop"
    /\ UNCHANGED <<error, sent_jobs, caller, scraped, sends, storeAtStart, scrapeVars, pollVars, loadVars, clockVars>>
    /\ upd' = NoUpd

\* RecordIfSent that ignores the value of send_telegram_message.
RecordIfSent_Always(table, id, ok, at) == Insert(table, id, at)

\* What one pass of a send loop does to the table: the row is inserted
\* only if send_telegram_message returned True.
RecordIfSent(table, id, ok, at) ==
    IF ok THEN Insert(table, id, at) ELSE [table |-> table, raised |-> FALSE]

\* One pass of "for j in new": send, and on True insert, commit, count.
\* An IntegrityError of the insert leaves send_new_jobs and main.
SendStep ==
    /\ pc = "send_loop"
    /\ send_i < Len(new)
    /\ \E ok \in BOOLEAN, at \in Times :
          LET j == new[send_i + 1]
              r == RecordIfSent(sent_jobs, j, ok, at)
          IN  /\ sends' = Append(sends, [what |-> j, ok |-> ok])
              /\ sent_jobs' = r.table
              /\ IF r.raised
                 THEN /\ error' = "IntegrityError"
                      /\ pc' = "crashed"
                      /\ UNCHANGED <<send_i, count>>
                 ELSE /\ send_i' = send_i + 1
                      /\ count' = IF ok THEN count + 1 ELSE count
                      /\ pc' = IF send_i + 1 >= Len(new) THEN "batch_done" ELSE "send_loop"
                      /\ UNCHANGED error
    /\ UNCHANGED <<caller, scraped, new, storeAtStart, scrapeVars,
                   pollVars, loadVars, clockVars>>
    /\ upd' = NoUpd

\* The locals and the history of a finished run are gone.
EndRun ==
    /\ caller' = "none"
    /\ scraped' = <<>>
    /\ new' = <<>>
    /\ send_i' = 0
    /\ count' = 0
    /\ sends' = <<>>
    /\ storeAtStart' = {}

\* return count; main logs it and enters the polling loop.
BatchReturn ==
    /\ pc = "batch_done"
    /\ EndRun
    /\ pc' = "poll"
    /\ UNCHANGED <<error, sent_jobs, scrapeVars, pollVars, loadVars, clockVars>>
    /\ upd' = NoUpd

\* -------------------------------------------------------------- handle_test
\* Unsent without the SELECT: every scraped posting counts as unsent.
Unsent_NoSelect(list, table) == list

\* unsent = [j for j in jobs if not ...fetchone()]
RECURSIVE Unsent(_, _)
Unsent(list, table) ==
    IF list = <<>> THEN <<>>
    ELSE IF Fetch(table, Head(list)) THEN Unsent(Tail(list), table)
         ELSE <<Head(list)>> \o Unsent(Tail(list), table)

Range(q) == {q[i] : i \in 1..Len(q)}

\* handle_test choosing among all scraped postings instead of the unsent ones.
HandleTest_PickFromJobs ==
    /\ pc = "handle_test"
    /\ LET unsent == Unsent(scraped, sent_jobs)
       IN  IF unsent = <<>>
           THEN /\ \E ok \in BOOLEAN : sends' = Append(sends, [what |-> "notice", ok |-> ok])
                /\ pc' = "test_done"
                /\ UNCHANGED <<sent_jobs, error>>
           ELSE \E job \in Range(scraped), ok \in BOOLEAN, at \in Times :
                   LET r == RecordIfSent(sent_jobs, job, ok, at)
                   IN  /\ sends' = Append(sends, [what |-> job, ok |-> ok])
                       /\ sent_jobs' = r.table
                       /\ IF r.raised
                          THEN /\ error' = "IntegrityError"
                               /\ pc' = "crashed"
                          ELSE /\ pc' = "test_done"
                               /\ UNCHANGED error
    /\ UNCHANGED <<caller, scraped, storeAtStart, scrapeVars, batchVars,
                   pollVars, loadVars, clockVars>>
    /\ upd' = NoUpd

\* handle_test after its scrape: the notice when unsent is empty, else one
\* random member of unsent is sent and, on True, inserted.
HandleTest ==
    /\ pc = "handle_test"
    /\ LET unsent == Unsent(scraped, sent_jobs)
       IN  IF unsent = <<>>
           THEN /\ \E ok \in BOOLEAN : sends' = Append(sends, [what |-> "notice", ok |-> ok])
                /\ pc' = "test_done"
                /\ UNCHANGED <<sent_jobs, error>>
           ELSE \E job \in Range(unsent), ok \in BOOLEAN, at \in Times :
                   LET r == RecordIfSent(sent_jobs, job, ok, at)
                   IN  /\ sends' = Append(sends, [what |-> job, ok |-> ok])
                       /\ sent_jobs' = r.table
                       /\ IF r.raised
                          THEN /\ error' = "IntegrityError"
                               /\ pc' = "crashed"
                          ELSE /\ pc' = "test_done"
                               /\ UNCHANGED error
    /\ UNCHANGED <<caller, scraped, storeAtStart, scrapeVars, batchVars,
                   pollVars, loadVars, clockVars>>
    /\ upd' = NoUpd

\* handle_test returns into the for loop over the updates.
TestReturn ==
    /\ pc = "test_done"
    /\ EndRun
    /\ pc' = IF pending = 0 THEN "poll" ELSE "dispatch"
    /\ UNCHANGED <<error, sent_jobs, scrapeVars, pollVars, loadVars, clockVars>>
    /\ upd' = NoUpd

\* --------------------------------------------------------------------- main
\* cookies = load_playwright_cookies(); if not cookies: sys.exit(1)
LoadCookies ==
    /\ pc = "load_cookies"
    /\ LET r == LoadResult(raw)
       IN  IF r.raised
           THEN /\ error' = "KeyError"
                /\ pc' = "crashed"
                /\ UNCHANGED cookies
           ELSE /\ cookies' = r.cookies
                /\ pc' = IF r.cookies = <<>> THEN "exited" ELSE "init_db"
                /\ UNCHANGED error
    /\ UNCHANGED <<sent_jobs, caller, scraped, sends, storeAtStart, raw,
                   scrapeVars, batchVars, pollVars, clockVars>>
    /\ upd' = NoUpd

\* conn = init_db(); offset = None; jobs = scrape_indeed_jobs_pw(...)
Startup ==
    /\ pc = "init_db"
    /\ CallScrape("startup")
    /\ storeAtStart' = StoredIds(sent_jobs)
    /\ sends' = <<>>
    /\ offset' = None
    /\ batchMinutes' = batchMinutes \cup {clock}
    /\ UNCHANGED <<error, sent_jobs, scraped, batchVars, pending, loadVars, clock>>
    /\ upd' = NoUpd

\* The message texts an update can carry.
Str_test == <<"/","t","e","s","t">>
Texts == {Str_test,
          <<" ","/","T","e","s","t"," ">>,
          <<"/","t","e","s","t","s">>,
          <<>>}
Chats == {"configured", "other", "no message"}

\* str.strip() for blanks
RECURSIVE LStrip(_)
LStrip(s) == IF s # <<>> /\ Head(s) = " " THEN LStrip(Tail(s)) ELSE s
RECURSIVE RStrip(_)
RStrip(s) == IF s # <<>> /\ s[Len(s)] = " " THEN RStrip(SubSeq(s, 1, Len(s) - 1)) ELSE s
Strip(s) == RStrip(LStrip(s))

\* The test of the text alone, whatever chat the message is from.
IsTestCommand_AnyChat(u) == Lower(Strip(u.text)) = Str_test

\* msg.get("chat", {}).get("id") == int(TELEGRAM_CHAT_ID)
\*   and msg.get("text","").strip().lower() == "/test"
IsTestCommand(u) ==
    /\ u.chat = "configured"
    /\ Lower(Strip(u.text)) = Str_test

\* Update ids the server can still hand out: it answers a request with
\* offset o by updates of id >= o, in increasing order.
FreshIds == {i \in 1..MaxUpdateId : offset = None \/ i >= offset}

\* requests.get(getUpdates ...): an exception or a response that is not ok
\* leads to the next poll after the sleep; an ok response has a result list.
Poll ==
    /\ pc = "poll"
    /\ \/ UNCHANGED <<pc, pending>>
       \/ \E n \in 1..MaxResp :
             /\ n <= Cardinality(FreshIds)
             /\ pending' = n
             /\ pc' = "dispatch"
    /\ UNCHANGED <<error, sent_jobs, offset, caller, scraped, sends, storeAtStart,
                   scrapeVars, batchVars, loadVars, clockVars>>
    /\ upd' = NoUpd

\* The cursor set to the id of the update itself.
NextOffset_SameId(u) == u.update_id

\* offset = upd["update_id"] + 1
NextOffset(u) == u.update_id + 1

\* Dispatch by a handler that does not wait for the run in progress.
Dispatch_DuringRun ==
    /\ pc \in {"dispatch", "s_loop", "s_navigate", "send_loop", "handle_test"}
    /\ pending > 0
    /\ \E id \in FreshIds, chat \in Chats, text \in Texts :
          LET u == [update_id |-> id, chat |-> chat,
                    text |-> IF chat = "no message" THEN <<>> ELSE text]
          IN  /\ Cardinality({i \in FreshIds : i > id}) >= pending - 1
              /\ upd' = u
              /\ offset' = NextOffset(u)
              /\ pending' = pending - 1
              /\ IF IsTestCommand(u)
                 THEN /\ CallScrape("test")
                      /\ storeAtStart' = StoredIds(sent_jobs)
                      /\ sends' = <<>>
                 ELSE /\ pc' = IF pending' = 0 THEN "poll" ELSE "dispatch"
                      /\ UNCHANGED <<caller, sends, storeAtStart, scrapeVars>>
    /\ UNCHANGED <<error, sent_jobs, scraped, batchVars, loadVars, clockVars>>

\* One pass of "for upd in resp.get("result", [])": the cursor moves past
\* the update, and the /test command of the configured chat runs
\* handle_test, which starts with its scrape.
Dispatch ==
    /\ pc = "dispatch"
    /\ pending > 0
    /\ \E id \in FreshIds, chat \in Chats, text \in Texts :
          LET u == [update_id |-> id, chat |-> chat,
                    text |-> IF chat = "no message" THEN <<>> ELSE text]
          IN  /\ Cardinality({i \in FreshIds : i > id}) >= pending - 1
              /\ upd' = u
              /\ offset' = NextOffset(u)
              /\ pending' = pending - 1
              /\ IF IsTestCommand(u)
                 THEN /\ CallScrape("test")
                      /\ storeAtStart' = StoredIds(sent_jobs)
                      /\ sends' = <<>>
                 ELSE /\ pc' = IF pending' = 0 THEN "poll" ELSE "dispatch"
                      /\ UNCHANGED <<caller, sends, storeAtStart, scrapeVars>>
    /\ UNCHANGED <<error, sent_jobs, scraped, batchVars, loadVars, clockVars>>

\* time.sleep(POLL_INTERVAL): wall-clock time passes while main polls; no
\* statement of main reads the clock.
Tick ==
    /\ pc = "poll"
    /\ clock < MaxClock
    /\ clock' = clock + 1
    /\ UNCHANGED <<pc, error, sent_jobs, caller, scraped, sends, storeAtStart,
                   scrapeVars, batchVars, pollVars, loadVars, batchMinutes>>
    /\ upd' = NoUpd

Next ==
    \/ LoadCookies
    \/ Startup
    \/ BeginAttempt
    \/ Navigate
    \/ Interact
    \/ ChallengeCheck
    \/ SelectorSearch
    \/ Query
    \/ ExtractStep
    \/ CloseAndReturn
    \/ ExceptHandler
    \/ ScrapeReturn
    \/ ScrapePropagate
    \/ FilterNew
    \/ SendStep
    \/ BatchReturn
    \/ HandleTest
    \/ TestReturn
    \/ Poll
    \/ Dispatch

Spec == Init /\ [][Next]_vars

\* The loader alone, on every input array of the model.
InitCookies == InitWith(RawInputs)
SpecCookies == InitCookies /\ [][LoadCookies]_vars

\* The process with the wall clock running.
NextClock == Next \/ Tick
SpecClock == Init /\ [][NextClock]_vars

TypeOK ==
    /\ pc \in {"load_cookies", "init_db", "exited", "crashed", "s_loop", "s_navigate",
               "s_interact", "s_challenge", "s_selector", "s_query", "s_extract",
               "s_close", "s_except", "s_returned", "s_raised", "send_new_jobs",
               "send_loop", "batch_done", "handle_test", "test_done", "poll", "dispatch"}
    /\ error \in {"none", "OSError", "FileNotFoundError", "IntegrityError", "KeyError"}
    /\ attempt \in 0..max_retries
    /\ Len(jobs) <= JOBS_TO_SCRAPE
    /\ Len(new) <= JOBS_TO_SEND

\* ================================================================== claims
Last(q) == q[Len(q)]

\* The postings of a list whose id is not in a set of ids, in order.
UnsentOf(list, ids) ==
    LET Absent(x) == x \notin ids
    IN  SelectSeq(list, Absent)

FirstN(q, n) == SubSeq(q, 1, IF Len(q) < n THEN Len(q) ELSE n)

\* The postings (or the notice) the sends of the current run were for.
SendTargets == [i \in 1..Len(sends) |-> sends[i].what]
SentOk == {sends[i].what : i \in {k \in 1..Len(sends) : sends[k].ok}}

\* The batch run (send_new_jobs) is over: it returned, or an error left it.
BatchOver ==
    /\ caller = "startup"
    /\ \/ pc = "batch_done"
       \/ pc = "crashed" /\ error = "IntegrityError"

\* The manual run is over after its scrape returned a list.
TestOver ==
    /\ caller = "test"
    /\ \/ pc = "test_done"
       \/ pc = "crashed" /\ error = "IntegrityError"

\* The scrape invocation is over: it returned a value, or an error left it.
ScrapeOver == pc \in {"s_returned", "s_raised"}

\* C1: a batch run makes no send attempt for a job id that was in sent_jobs
\* when the run started, however often the scraped list repeats the id.
C1_NoResendOfStored ==
    caller = "startup" =>
        \A i \in 1..Len(sends) : sends[i].what \notin storeAtStart

\* C1 witness: a finished batch run that made sends although the scraped
\* list held a stored id twice.
C1_Witness ==
    /\ pc = "batch_done"
    /\ sends # <<>>
    /\ \E i, k \in 1..Len(scraped) :
          i < k /\ scraped[i] = scraped[k] /\ scraped[i] \in storeAtStart

\* C2: in every run (batch or manual), an id that was not in sent_jobs
\* before the run is in it if and only if a send of that posting returned
\* True during the run; rows present before the run stay.
C2_RecordedIffSent ==
    caller # "none" =>
        /\ \A id \in JobIds \ storeAtStart :
              id \in StoredIds(sent_jobs) <=> id \in SentOk
        /\ storeAtStart \subseteq StoredIds(sent_jobs)

\* C2 witness: a finished batch run with one failed send, whose posting is
\* not recorded, and one successful send.
C2_Witness ==
    /\ pc = "batch_done"
    /\ \E i \in 1..Len(sends) :
          ~sends[i].ok /\ sends[i].what \notin StoredIds(sent_jobs)
    /\ SentOk # {}

\* C3 (as claimed): recording an id that sent_jobs already holds changes no
\* row, leaves the id stored exactly once and raises no error.  A record
\* operation is the step of a send that returned True.
C3_RecordExistingIsNoOp ==
    [][\A id \in JobIds :
          ( /\ Len(sends') = Len(sends) + 1
            /\ Last(sends').what = id
            /\ Last(sends').ok
            /\ Fetch(sent_jobs, id) )
          => /\ sent_jobs' = sent_jobs
             /\ Cardinality({r \in sent_jobs' : r.job_id = id}) = 1
             /\ error' = "none"]_vars

\* C4 (as claimed): a batch run attempts sends for exactly the first
\* min(unsent count, JOBS_TO_SEND) unsent postings of the scraped list, in
\* order, whatever the earlier sends returned.
C4_AttemptsFirstUnsent ==
    BatchOver =>
        SendTargets = FirstN(UnsentOf(scraped, storeAtStart), JOBS_TO_SEND)

\* C5 (as claimed): once an attempt detected the challenge markers, the
\* invocation returns [] and no further attempt starts; a challenge on the
\* first attempt means exactly one attempt.
C5_ChallengeReturnsEmpty ==
    ((\E i \in 1..Len(outcomes) : outcomes[i] = "challenge") /\ pc # "s_except")
        => /\ pc = "s_returned"
           /\ result = <<>>
           /\ Last(outcomes) = "challenge"
           /\ attempt = Len(outcomes)
           /\ (outcomes[1] = "challenge" => attempt = 1)

\* C6 (as claimed): an invocation whose attempts all ended in
\* selector-not-found makes exactly max_retries attempts and returns [];
\* no invocation makes more than max_retries attempts.
C6_SelectorMissesExhaustRetries ==
    /\ attempt <= max_retries
    /\ ( /\ ScrapeOver
         /\ outcomes # <<>>
         /\ \A i \in 1..Len(outcomes) : outcomes[i] = "selector" )
       => /\ pc = "s_returned"
          /\ Len(outcomes) = max_retries
          /\ result = <<>>

\* C7 (as claimed): after an attempt failure that is not a detected
\* challenge, whatever the message, a new attempt follows when
\* attempt < max_retries, and the invocation returns [] when
\* attempt = max_retries.
C7_OtherFailuresRetry ==
    [][(pc = "s_except" /\ exc.kind # "RuntimeError")
          => IF attempt < max_retries
             THEN pc' = "s_loop"
             ELSE pc' = "s_returned" /\ result' = <<>>]_vars

\* C8 (as claimed): the value a successful scrape returns is never the
\* value a failed scrape returns, so the caller can tell "zero postings"
\* from a scraping failure.
C8_FailureDistinctFromZeroResults ==
    (pc = "s_returned" /\ Last(outcomes) = "success") => result # FailureResult

\* C9: the value an invocation returns is the complete extraction of its
\* last attempt when that attempt succeeded, and [] otherwise: nothing of a
\* failed attempt and nothing of an earlier attempt is in it.
C9_ResultIsOneAttemptOrEmpty ==
    pc = "s_returned" =>
        IF Last(outcomes) = "success"
        THEN result = ExtractFrom(els, <<>>, JOBS_TO_SCRAPE)
        ELSE result = <<>>

\* C9 witness: an invocation returned [] after its last attempt had
\* collected postings and then failed.
C9_Witness ==
    /\ pc = "s_returned"
    /\ Last(outcomes) # "success"
    /\ jobs # <<>>
    /\ result = <<>>

\* C10: a manual run whose scrape holds no posting absent from sent_jobs
\* makes exactly one send, the notice, and adds no row.
C10_NoUnsentSendsOneNotice ==
    (TestOver /\ UnsentOf(scraped, storeAtStart) = <<>>)
        => /\ pc = "test_done"
           /\ Len(sends) = 1
           /\ sends[1].what = "notice"
           /\ StoredIds(sent_jobs) = storeAtStart
           /\ Cardinality(sent_jobs) = Cardinality(storeAtStart)

\* C10 witness: a finished manual run that sent the notice although its
\* scrape returned postings (all of them stored).
C10_Witness ==
    /\ pc = "test_done"
    /\ scraped # <<>>
    /\ Len(sends) = 1
    /\ sends[1].what = "notice"

\* C11: a manual run whose scrape holds a posting absent from sent_jobs makes
\* exactly one send, for one of those postings and not the notice, and adds
\* the row of that posting if the send succeeded and no row otherwise.
C11_UnsentSendsOneMember ==
    (TestOver /\ UnsentOf(scraped, storeAtStart) # <<>>)
        => /\ pc = "test_done"
           /\ Len(sends) = 1
           /\ sends[1].what # "notice"
           /\ \E i \in 1..Len(scraped) :
                 scraped[i] = sends[1].what /\ scraped[i] \notin storeAtStart
           /\ StoredIds(sent_jobs) =
                 storeAtStart \cup (IF sends[1].ok THEN {sends[1].what} ELSE {})
           /\ Cardinality(sent_jobs) =
                 Cardinality(storeAtStart) + (IF sends[1].ok THEN 1 ELSE 0)

\* C11 witness: a finished manual run that had two different unsent postings
\* to choose from, sent the second and recorded it.
C11_Witness ==
    /\ pc = "test_done"
    /\ caller = "test"
    /\ Len(UnsentOf(scraped, storeAtStart)) >= 2
    /\ Len(sends) = 1
    /\ sends[1].ok
    /\ sends[1].what = Last(UnsentOf(scraped, storeAtStart))
    /\ sends[1].what # UnsentOf(scraped, storeAtStart)[1]
    /\ sends[1].what \in StoredIds(sent_jobs)

\* The pipeline's variables other than the cursor and the loop of main.
RunState ==
    <<error, sent_jobs, caller, scraped, sends, storeAtStart, scrapeVars, batchVars,
      loadVars, clockVars>>

\* The texts of the model that are "/test" once trimmed and case-folded.
CommandTexts == {<<"/","t","e","s","t">>, <<" ","/","T","e","s","t"," ">>}

\* C12: the step of the polling loop that looks at an update starts a manual
\* run if and only if the update's message is from the configured chat and
\* its text is "/test" after trimming and case-folding; for any other update
\* the step changes the cursor and the position in the response only.
C12_RunIffCommand ==
    [][upd' # NoUpd =>
          LET command == upd'.chat = "configured" /\ upd'.text \in CommandTexts
          IN  /\ (pc' = "s_loop" /\ caller' = "test" /\ attempt' = 0) <=> command
              /\ ~command => /\ pc' \in {"poll", "dispatch"}
                             /\ UNCHANGED RunState]_vars

\* C12 witness: the command, with blanks around it and in other case, from
\* the configured chat has just started a manual run.
C12_Witness ==
    /\ upd.chat = "configured"
    /\ upd.text = <<" ","/","T","e","s","t"," ">>
    /\ pc = "s_loop"
    /\ caller = "test"

\* C13: the cursor never decreases; it changes only when an update is looked
\* at and is then that update's id + 1; and the update looked at is never
\* one below the cursor, that is, one looked at before.
C13_CursorAdvances ==
    [][/\ offset' >= offset
       /\ offset' # offset => upd' # NoUpd
       /\ upd' # NoUpd => /\ offset' = upd'.update_id + 1
                          /\ upd'.update_id >= offset]_vars

\* C13 witness: the second update of the process has been looked at, and
\* the cursor is past it.
C13_Witness ==
    /\ upd.update_id = 2
    /\ offset = 3
    /\ pc \in {"poll", "dispatch", "s_loop"}

\* C14: a run of the scrape pipeline starts only when no run is active, and
\* while a run is active no update is fetched or looked at: the updates that
\* wait are handled after the run is over.
C14_RunsAreSerial ==
    [][/\ (pc' = "s_loop" /\ attempt' = 0 /\ (upd' # NoUpd \/ pc = "init_db"))
              => caller = "none"
       /\ caller # "none"
              => (upd' = NoUpd /\ offset' = offset /\ pending' = pending)]_vars

\* C14 witness: a manual run is scraping while a further update of the same
\* response waits to be looked at.
C14_Witness ==
    /\ caller = "test"
    /\ pc = "s_navigate"
    /\ pending > 0

\* The configured target times of the clock-based trigger, in minutes of
\* the model's clock.
TargetTimes == {1}

\* C15: when the clock is at a target time, a batch run is started in that
\* minute: the minute does not pass without one.
C15_BatchAtTargetTimes ==
    [][(clock \in TargetTimes /\ clock' # clock) => clock \in batchMinutes]_vars

\* The entries of an input array that have all required fields, sanitized,
\* in the order of the array.
KeptEntries(array) ==
    LET Complete(c) == {"name", "value", "domain"} \subseteq DOMAIN c
        kept == SelectSeq(array, Complete)
    IN  [i \in 1..Len(kept) |-> SanitizeCookie(kept[i])]

\* C16: for an input array, the loader returns the sanitized entries that
\* have name, value and domain, in order, and dropping the others does not
\* make the load fail.
C16_DropsEntriesLackingFields ==
    (pc # "load_cookies" /\ raw.kind \in {"json", "file"})
        => /\ error # "KeyError"
           /\ cookies = KeptEntries(raw.array)

\* C17: the selector the attempt goes on with is the first in priority order
\* that the page has a match for, and selector-not-found is reported only
\* for a page no selector matches.
C17_FirstMatchingSelectorUsed ==
    /\ pc = "s_query"
          => /\ found \in matching
             /\ \A k \in matching : found <= k
    /\ (pc = "s_except" /\ exc.kind = "TimeoutError") => matching = {}

\* C17 witness: on a page where only the second selector matches, the
\* attempt goes on to query the matches of the second selector.
C17_Witness ==
    /\ pc = "s_query"
    /\ matching = {2}
    /\ found = 2

\* C18: in no run is a job id sent successfully twice, or sent successfully
\* although an earlier run recorded it, and no run ends with the error of
\* the insert that records a sent id.
C18_NoRepeatedSendNoAbort ==
    /\ \A i, j \in 1..Len(sends) :
          (i < j /\ sends[i].ok /\ sends[j].ok /\ sends[i].what # "notice")
              => sends[i].what # sends[j].what
    /\ \A i \in 1..Len(sends) : sends[i].ok => sends[i].what \notin storeAtStart
    /\ error # "IntegrityError"

\* C19: whatever fails on the failure path of an attempt (screenshot, HTML
\* dump, error-log write, commit-and-push), the path reaches its decision:
\* the next attempt, or the return of the invocation; no error leaves it.
C19_FailurePathReachesDecision ==
    [][pc = "s_except"
          => /\ pc' \in {"s_loop", "s_returned"}
             /\ error' = "none"]_vars

\* C20: whatever happens inside the human-like interactions, the attempt
\* goes on to its challenge check, with no failure recorded for it.
C20_InteractionsNeverFailAttempt ==
    [][pc = "s_interact"
          => /\ pc' = "s_challenge"
             /\ outcomes' = outcomes
             /\ exc' = NoExc]_vars

====
